---------------------------- MODULE Spec2Model ----------------------------
(***************************************************************************)
(* A model of the console verse formatter of src/python/bible.py:          *)
(* ConsoleVerseFormatter (formatVerses, _formatVerse, the four marker      *)
(* handlers, addTextToCurrentParagraph), Paragraph and its console         *)
(* rendering, and formatVersesForConsole, which drives them.               *)
(*                                                                         *)
(* A verse text is a sequence of one-character strings.  An address is a   *)
(* record [kind, chapter, verse]: kind "pair" is the tuple (chapter,       *)
(* verse), kind "int" is a bare integer (held in verse), kind "none" is    *)
(* Python's None.                                                          *)
(***************************************************************************)
EXTENDS Integers, Sequences, FiniteSets, TLC

VARIABLES
    verses,      \* the argument of formatVersesForConsole: <<addr, text>> pairs
    vi,          \* how many verses the for loop of formatVerses has fetched
    verseText,   \* the local verseText of _formatVerse (what is left to scan)
    paragraphs,  \* ConsoleVerseFormatter.paragraphs
    verseAddr,   \* ConsoleVerseFormatter.verseAddr
    pc,          \* where formatVersesForConsole is
    error,       \* the exception that ended the call, "none" while there is none
    output,      \* what formatVersesForConsole returned, NoOutput until it returns
    query,       \* the argument of a citation call: which function, and its text
    citation,    \* what citations.parse returned, NoCitation until it returns
    book         \* what books.findBook returned, NoBook until it returns

vars == <<verses, vi, verseText, paragraphs, verseAddr, pc, error, output,
          query, citation, book>>

\* What only the citation calls change.
citationVars == <<query, citation, book>>

-----------------------------------------------------------------------------
(* Bounds of the model. *)

\* At most this many verses in the input sequence.
MaxVerses == 2

\* At most this many characters in all the verse texts together.
MaxChars == 4

\* At most this many characters in a verses expression parsed on its own.
MaxExprLen == 6

\* At most this many characters after the book name of a citation.
MaxRestLen == 3

-----------------------------------------------------------------------------
(* Characters, texts and addresses. *)

\* The four structural markers: the character class of metaCharRegex.
metaCharRegex == {"[", "]", "/", "\\"}

\* The characters of the modelled texts: a letter, a blank, the markers.
Char == {"a", " "} \cup metaCharRegex

None == [kind |-> "none", chapter |-> 0, verse |-> 0]

PairAddr(c, v) == [kind |-> "pair", chapter |-> c, verse |-> v]

IntAddr(n) == [kind |-> "int", chapter |-> 0, verse |-> n]

\* What formatVersesForConsole has returned before it returns.
NoOutput == <<"NoOutput">>

\* No citation call was made: formatVersesForConsole was called directly.
NoQuery == [entry |-> "none", isNone |-> FALSE, text |-> <<>>]

\* citations.parse has not returned.
NoCitation == [book |-> <<>>, hasLocs |-> FALSE, locs |-> <<>>]

\* books.findBook has not returned, or it returned None.
NoBook == [normalName |-> <<>>, normalAbbreviations |-> {}, text |-> <<>>]

\* re.search(metaCharRegex, s).start() + 1, or 0 when there is no match.
RECURSIVE SearchFrom(_, _)
SearchFrom(s, i) ==
    IF i > Len(s) THEN 0
    ELSE IF s[i] \in metaCharRegex THEN i
    ELSE SearchFrom(s, i + 1)

search(s) == SearchFrom(s, 1)

\* str.strip(): the text without its leading and trailing blanks.
RECURSIVE lstrip(_)
lstrip(s) ==
    IF Len(s) > 0 /\ Head(s) = " " THEN lstrip(Tail(s)) ELSE s

RECURSIVE rstrip(_)
rstrip(s) ==
    IF Len(s) > 0 /\ s[Len(s)] = " " THEN rstrip(SubSeq(s, 1, Len(s) - 1)) ELSE s

strip(s) == rstrip(lstrip(s))

-----------------------------------------------------------------------------
(* Paragraph. *)

\* Paragraph.__init__: a paragraph of the given formatting with no lines.
Paragraph(formatting) == [formatting |-> formatting, lines |-> <<>>]

\* An addText that appends the line twice.
addTextTwice(p, addr, text) ==
    [p EXCEPT !.lines = @ \o <<[addr |-> addr, text |-> text], [addr |-> addr, text |-> text]>>]

\* Paragraph.addText
addText(p, addr, text) ==
    [p EXCEPT !.lines = Append(@, [addr |-> addr, text |-> text])]

\* Paragraph.isEmpty
isEmpty(p) == Len(p.lines) = 0

\* A pop that removes the first element of the list.
popFirst(ps) == SubSeq(ps, 2, Len(ps))

\* list.pop(): the list without its last element.
pop(ps) == SubSeq(ps, 1, Len(ps) - 1)

-----------------------------------------------------------------------------
(* ConsoleVerseFormatter: the state predicates and the handlers, as        *)
(* functions of the formatter's state (paragraphs, verseAddr).  A handler  *)
(* returns the new state and the exception it raised ("none" if none).     *)

currentParagraphIsProse(ps) ==
    Len(ps) > 0 /\ ps[Len(ps)].formatting = "prose"

currentParagraphIsNotProse(ps) ==
    Len(ps) > 0 /\ ps[Len(ps)].formatting # "prose"

currentParagraphIsPoetry(ps) ==
    Len(ps) > 0 /\ ps[Len(ps)].formatting = "poetry"

currentParagraphIsNotPoetry(ps) ==
    Len(ps) > 0 /\ ps[Len(ps)].formatting # "poetry"

State(ps, addr, err) == [paragraphs |-> ps, verseAddr |-> addr, error |-> err]

\* addTextToCurrentParagraph that does not forget verseAddr.
addTextToCurrentParagraphKeepAddr(ps, addr, text) ==
    IF Len(text) > 0
    THEN LET qs == IF Len(ps) = 0 THEN Append(ps, Paragraph("prose")) ELSE ps
         IN State([qs EXCEPT ![Len(qs)] = addText(@, addr, text)], addr, "none")
    ELSE State(ps, addr, "none")

\* addTextToCurrentParagraph without the test for the empty string.
addTextToCurrentParagraphAlways(ps, addr, text) ==
    LET qs == IF Len(ps) = 0 THEN Append(ps, Paragraph("prose")) ELSE ps
    IN State([qs EXCEPT ![Len(qs)] = addText(@, addr, text)], None, "none")

addTextToCurrentParagraph(ps, addr, text) ==
    IF Len(text) > 0
    THEN LET qs == IF Len(ps) = 0 THEN Append(ps, Paragraph("prose")) ELSE ps
         IN State([qs EXCEPT ![Len(qs)] = addText(@, addr, text)], None, "none")
    ELSE State(ps, addr, "none")

\* handlePoetryBegin without the test that the paragraph it pops is empty.
handlePoetryBeginPopAlways(ps, addr, verseTextSegment) ==
    IF currentParagraphIsPoetry(ps)
    THEN State(ps, addr, "FormattingError")
    ELSE LET a == addTextToCurrentParagraph(ps, addr, verseTextSegment)
             qs == IF Len(a.paragraphs) > 0 THEN pop(a.paragraphs) ELSE a.paragraphs
         IN State(Append(qs, Paragraph("poetry")), a.verseAddr, "none")

\* handlePoetryBegin that keeps the current paragraph even when it is empty.
handlePoetryBeginKeepEmpty(ps, addr, verseTextSegment) ==
    IF currentParagraphIsPoetry(ps)
    THEN State(ps, addr, "FormattingError")
    ELSE LET a == addTextToCurrentParagraph(ps, addr, verseTextSegment)
         IN State(Append(a.paragraphs, Paragraph("poetry")), a.verseAddr, "none")

handlePoetryBegin(ps, addr, verseTextSegment) ==
    IF currentParagraphIsPoetry(ps)
    THEN State(ps, addr, "FormattingError")
    ELSE LET a == addTextToCurrentParagraph(ps, addr, verseTextSegment)
             qs == IF Len(a.paragraphs) > 0 /\ isEmpty(a.paragraphs[Len(a.paragraphs)])
                   THEN pop(a.paragraphs)
                   ELSE a.paragraphs
         IN State(Append(qs, Paragraph("poetry")), a.verseAddr, "none")

\* handlePoetryEnd appending the prose paragraph before it commits the segment.
handlePoetryEndAppendFirst(ps, addr, verseTextSegment) ==
    IF currentParagraphIsProse(ps)
    THEN State(ps, addr, "FormattingError")
    ELSE addTextToCurrentParagraph(Append(ps, Paragraph("prose")), addr, verseTextSegment)

\* handlePoetryEnd committing the segment before it tests its precondition.
handlePoetryEndCommitFirst(ps, addr, verseTextSegment) ==
    LET a == addTextToCurrentParagraph(ps, addr, verseTextSegment)
    IN IF currentParagraphIsProse(ps)
       THEN State(a.paragraphs, a.verseAddr, "FormattingError")
       ELSE State(Append(a.paragraphs, Paragraph("prose")), a.verseAddr, "none")

handlePoetryEnd(ps, addr, verseTextSegment) ==
    IF currentParagraphIsProse(ps)
    THEN State(ps, addr, "FormattingError")
    ELSE LET a == addTextToCurrentParagraph(ps, addr, verseTextSegment)
         IN State(Append(a.paragraphs, Paragraph("prose")), a.verseAddr, "none")

\* handlePoetryLineBreak committing the segment before it opens the poetry.
handlePoetryLineBreakCommitFirst(ps, addr, verseTextSegment) ==
    LET a == addTextToCurrentParagraph(ps, addr, verseTextSegment)
    IN IF currentParagraphIsNotPoetry(ps)
       THEN State(Append(a.paragraphs, Paragraph("poetry")), a.verseAddr, "none")
       ELSE a

\* handlePoetryLineBreak with the raise that the source has commented out.
handlePoetryLineBreakRaising(ps, addr, verseTextSegment) ==
    IF currentParagraphIsNotPoetry(ps)
    THEN State(ps, addr, "FormattingError")
    ELSE addTextToCurrentParagraph(ps, addr, verseTextSegment)

handlePoetryLineBreak(ps, addr, verseTextSegment) ==
    LET qs == IF currentParagraphIsNotPoetry(ps)
              THEN Append(ps, Paragraph("poetry"))
              ELSE ps
    IN addTextToCurrentParagraph(qs, addr, verseTextSegment)

\* handleParagraphBreak that appends a prose paragraph whatever the current
\* paragraph holds.
handleParagraphBreakAppendAlways(ps, addr, verseTextSegment) ==
    IF currentParagraphIsNotProse(ps)
    THEN State(ps, addr, "FormattingError")
    ELSE LET a == addTextToCurrentParagraph(ps, addr, verseTextSegment)
         IN IF Len(a.paragraphs) = 0
            THEN State(a.paragraphs, a.verseAddr, "IndexError")
            ELSE State(Append(a.paragraphs, Paragraph("prose")), a.verseAddr, "none")

\* self.paragraphs[-1] of an empty list raises IndexError.
handleParagraphBreak(ps, addr, verseTextSegment) ==
    IF currentParagraphIsNotProse(ps)
    THEN State(ps, addr, "FormattingError")
    ELSE LET a == addTextToCurrentParagraph(ps, addr, verseTextSegment)
         IN IF Len(a.paragraphs) = 0
            THEN State(a.paragraphs, a.verseAddr, "IndexError")
            ELSE IF ~isEmpty(a.paragraphs[Len(a.paragraphs)])
            THEN State(Append(a.paragraphs, Paragraph("prose")), a.verseAddr, "none")
            ELSE a

-----------------------------------------------------------------------------
(* Rendering for the console.  A rendering is a sequence of tokens: the    *)
(* characters of the texts, decimal digits, "\n", and DIM and NORMAL for   *)
(* the two ANSI sequences.  A rendering in which unpacking an address      *)
(* raises TypeError is TypeError.                                          *)

\* ConsoleVerseFormatter.__init__ sets _useColor; formatVersesForConsole
\* never changes it.
useColor == TRUE

\* The width of the first and of the later lines' address column in poetry.
FirstIndentSize == 12

IndentSize == 16

\* initial_indent of textWrapperForProse1 and of textWrapperForProse2.
ProseIndent1 == <<>>

ProseIndent2 == <<" ", " ", " ", " ">>

TypeError == <<"TypeError">>

Digit == <<"0", "1", "2", "3", "4", "5", "6", "7", "8", "9">>

\* '%d' % n, for n >= 0
RECURSIVE decimal(_)
decimal(n) ==
    IF n < 10 THEN <<Digit[n + 1]>> ELSE decimal(n \div 10) \o <<Digit[(n % 10) + 1]>>

\* 'chapter, verse = addr' raises TypeError unless addr is a pair.
Unpackable(addr) == addr.kind = "pair"

RECURSIVE Blanks(_)
Blanks(n) == IF n <= 0 THEN <<>> ELSE <<" ">> \o Blanks(n - 1)

\* '%-*s' % (size, s)
ljust(s, size) == s \o Blanks(size - Len(s))

\* str.replace for a one-character old.
RECURSIVE replace(_, _, _)
replace(s, old, new) ==
    IF s = <<>> THEN <<>>
    ELSE (IF Head(s) = old THEN new ELSE <<Head(s)>>) \o replace(Tail(s), old, new)

\* sep.join(parts)
RECURSIVE join(_, _)
join(sep, parts) ==
    IF parts = <<>> THEN <<>>
    ELSE IF Len(parts) = 1 THEN parts[1]
    ELSE parts[1] \o sep \o join(sep, Tail(parts))

\* TextWrapper.fill of a text that fits in the wrapper's width (80; the texts
\* of the model are far shorter): one line, the indent and the text without
\* its trailing blanks, or nothing when the text is all blanks.
fill(indent, text) ==
    IF rstrip(text) = <<>> THEN <<>> ELSE indent \o rstrip(text)

formatLineOfProse(addr, text) ==
    LET addrToken ==
            IF addr = None THEN <<>>
            ELSE IF useColor
            THEN <<"DIM">> \o decimal(addr.chapter) \o <<":">> \o decimal(addr.verse)
                 \o <<"NORMAL">>
            ELSE <<"[">> \o decimal(addr.chapter) \o <<":">> \o decimal(addr.verse)
                 \o <<"]">>
    IN addrToken \o <<" ">> \o text

formatProseForConsole(p, isFirst) ==
    IF \E i \in 1..Len(p.lines) : p.lines[i].addr # None /\ ~Unpackable(p.lines[i].addr)
    THEN TypeError
    ELSE fill(IF isFirst THEN ProseIndent1 ELSE ProseIndent2,
              join(<<" ">>, [i \in 1..Len(p.lines) |->
                                formatLineOfProse(p.lines[i].addr, p.lines[i].text)]))

formatLineOfPoetry(addr, text, isFirst) ==
    LET addrToken ==
            IF addr = None THEN <<>>
            ELSE <<"[">> \o decimal(addr.chapter) \o <<":">> \o decimal(addr.verse)
                 \o <<"]">>
        padded == ljust(addrToken, IF isFirst THEN FirstIndentSize ELSE IndentSize)
        coloured == IF useColor
                    THEN replace(replace(padded, "[", <<"DIM">>),
                                 "]", <<"NORMAL", " ", " ">>)
                    ELSE padded
    IN coloured \o text

formatPoetryForConsole(p) ==
    IF \E i \in 1..Len(p.lines) : p.lines[i].addr # None /\ ~Unpackable(p.lines[i].addr)
    THEN TypeError
    ELSE join(<<"\n">>, [i \in 1..Len(p.lines) |->
                            formatLineOfPoetry(p.lines[i].addr, p.lines[i].text, i = 1)])

formatForConsole(p, isFirst) ==
    IF p.formatting = "prose" THEN formatProseForConsole(p, isFirst)
    ELSE formatPoetryForConsole(p)

\* formattedText telling every paragraph that it is the first.
formattedTextAllFirst(ps) ==
    LET parts == [index \in 1..Len(ps) |-> formatForConsole(ps[index], TRUE)]
    IN IF \E index \in 1..Len(ps) : parts[index] = TypeError
       THEN TypeError
       ELSE join(<<"\n">>, parts) \o <<"\n">>

\* ConsoleVerseFormatter.formattedText
formattedText(ps) ==
    LET parts == [index \in 1..Len(ps) |-> formatForConsole(ps[index], index = 1)]
    IN IF \E index \in 1..Len(ps) : parts[index] = TypeError
       THEN TypeError
       ELSE join(<<"\n">>, parts) \o <<"\n">>

-----------------------------------------------------------------------------
(* The inputs. *)

\* The texts of the verses that flat is cut into at the positions cuts.
Split(flat, cuts) ==
    [i \in 1..(Len(cuts) + 1) |->
        SubSeq(flat,
               (IF i = 1 THEN 0 ELSE cuts[i - 1]) + 1,
               IF i > Len(cuts) THEN Len(flat) ELSE cuts[i])]

NonDecreasing(cuts) ==
    \A i \in 1..(Len(cuts) - 1) : cuts[i] <= cuts[i + 1]

\* The address the text store gives the i-th verse: (chapter, verse) in a
\* book with chapters, a bare number in a book without.
StoreAddr(hasChapters, i) == IF hasChapters THEN PairAddr(1, i) ELSE IntAddr(i)

Verses(hasChapters, ts) ==
    [i \in 1..Len(ts) |-> [addr |-> StoreAddr(hasChapters, i), text |-> ts[i]]]

\* verses is a sequence of v verses holding n characters together.
IsInput(hasChapters, v, n) ==
    IF v = 0
    THEN n = 0 /\ verses = <<>>
    ELSE \E flat \in [1..n -> Char] : \E cuts \in [1..(v - 1) -> 0..n] :
            /\ NonDecreasing(cuts)
            /\ verses = Verses(hasChapters, Split(flat, cuts))

-----------------------------------------------------------------------------
(* formatVersesForConsole, step by step. *)

Init ==
    /\ \/ \E v \in 0..MaxVerses : \E n \in 0..MaxChars : IsInput(TRUE, v, n)
       \/ IsInput(TRUE, 1, MaxChars + 1)
    /\ vi = 0
    /\ verseText = <<>>
    /\ paragraphs = <<>>
    /\ verseAddr = None
    /\ pc = "for"
    /\ error = "none"
    /\ output = NoOutput
    /\ query = NoQuery
    /\ citation = NoCitation
    /\ book = NoBook

\* A loop that starts every verse in a new paragraph of prose.
FetchVerseInNewParagraph ==
    /\ pc = "for"
    /\ vi < Len(verses)
    /\ vi' = vi + 1
    /\ verseAddr' = verses[vi + 1].addr
    /\ verseText' = verses[vi + 1].text
    /\ paragraphs' = Append(paragraphs, Paragraph("prose"))
    /\ pc' = "formatVerse"
    /\ UNCHANGED <<verses, error, output, citationVars>>

\* formatVerses: the for loop fetches the next verse and enters _formatVerse.
FetchVerse ==
    /\ pc = "for"
    /\ vi < Len(verses)
    /\ vi' = vi + 1
    /\ verseAddr' = verses[vi + 1].addr
    /\ verseText' = verses[vi + 1].text
    /\ pc' = "formatVerse"
    /\ UNCHANGED <<verses, paragraphs, error, output, citationVars>>

\* _formatVerse: the metacharacter the while loop handles next, "" if none.
metaChar(text) == IF search(text) = 0 THEN "" ELSE text[search(text)]

\* _formatVerse: everything up to the metacharacter, stripped.
verseTextSegment(text) == strip(SubSeq(text, 1, search(text) - 1))

\* A discard that drops all that follows the metacharacter, markers included.
discardAll(text) == SubSeq(text, 1, 0)

\* _formatVerse: what is left after the metacharacter, stripped.
discard(text) == strip(SubSeq(text, search(text) + 1, Len(text)))

\* The end of a turn of the while loop in a caller that catches the exception
\* and returns what has been formatted so far.
HandledReturningPartial(r) ==
    /\ paragraphs' = r.paragraphs
    /\ verseAddr' = r.verseAddr
    /\ error' = r.error
    /\ IF r.error = "none"
       THEN /\ verseText' = discard(verseText)
            /\ pc' = "formatVerse"
            /\ UNCHANGED output
       ELSE /\ verseText' = verseText
            /\ pc' = "raised"
            /\ output' = formattedText(r.paragraphs)
    /\ UNCHANGED <<verses, vi, citationVars>>

\* _formatVerse: the end of one turn of the while loop whose handler left r;
\* an exception leaves the loop and the call.
Handled(r) ==
    /\ paragraphs' = r.paragraphs
    /\ verseAddr' = r.verseAddr
    /\ error' = r.error
    /\ IF r.error = "none"
       THEN /\ verseText' = discard(verseText)
            /\ pc' = "formatVerse"
       ELSE /\ verseText' = verseText
            /\ pc' = "raised"
    /\ UNCHANGED <<verses, vi, output, citationVars>>

PoetryBegin ==
    /\ pc = "formatVerse"
    /\ metaChar(verseText) = "["
    /\ Handled(handlePoetryBegin(paragraphs, verseAddr, verseTextSegment(verseText)))

PoetryEnd ==
    /\ pc = "formatVerse"
    /\ metaChar(verseText) = "]"
    /\ Handled(handlePoetryEnd(paragraphs, verseAddr, verseTextSegment(verseText)))

PoetryLineBreak ==
    /\ pc = "formatVerse"
    /\ metaChar(verseText) = "/"
    /\ Handled(handlePoetryLineBreak(paragraphs, verseAddr, verseTextSegment(verseText)))

ParagraphBreak ==
    /\ pc = "formatVerse"
    /\ metaChar(verseText) = "\\"
    /\ Handled(handleParagraphBreak(paragraphs, verseAddr, verseTextSegment(verseText)))

\* _formatVerse: no metacharacter is left; what remains is committed.
CommitRest ==
    /\ pc = "formatVerse"
    /\ search(verseText) = 0
    /\ LET r == addTextToCurrentParagraph(paragraphs, verseAddr, verseText)
       IN /\ paragraphs' = r.paragraphs
          /\ verseAddr' = r.verseAddr
    /\ pc' = "for"
    /\ UNCHANGED <<verses, vi, verseText, error, output, citationVars>>

\* formatVerses: the loop is over; the trailing empty paragraph is trimmed.
\* self.paragraphs[-1] of an empty list raises IndexError.
Trim ==
    /\ pc = "for"
    /\ vi = Len(verses)
    /\ IF Len(paragraphs) = 0
       THEN /\ error' = "IndexError"
            /\ pc' = "raised"
            /\ UNCHANGED paragraphs
       ELSE /\ paragraphs' = IF isEmpty(paragraphs[Len(paragraphs)])
                             THEN pop(paragraphs)
                             ELSE paragraphs
            /\ pc' = "formattedText"
            /\ UNCHANGED error
    /\ UNCHANGED <<verses, vi, verseText, verseAddr, output, citationVars>>

\* formatVersesForConsole returns verseFormatter.formattedText.
Return ==
    /\ pc = "formattedText"
    /\ LET text == formattedText(paragraphs)
       IN IF text = TypeError
          THEN /\ error' = "TypeError"
               /\ pc' = "raised"
               /\ UNCHANGED output
          ELSE /\ output' = text
               /\ pc' = "returned"
               /\ UNCHANGED error
    /\ UNCHANGED <<verses, vi, verseText, paragraphs, verseAddr, citationVars>>

Next ==
    \/ FetchVerse
    \/ PoetryBegin
    \/ PoetryEnd
    \/ PoetryLineBreak
    \/ ParagraphBreak
    \/ CommitRest
    \/ Trim
    \/ Return

Spec == Init /\ [][Next]_vars

\* The same call on the verses of any book: one with chapters, whose
\* addresses are pairs, or one without, whose addresses are bare numbers.
InitAnyBook ==
    /\ \E hasChapters \in BOOLEAN : \E v \in 0..MaxVerses : \E n \in 0..(MaxChars - 1) :
          IsInput(hasChapters, v, n)
    /\ vi = 0
    /\ verseText = <<>>
    /\ paragraphs = <<>>
    /\ verseAddr = None
    /\ pc = "for"
    /\ error = "none"
    /\ output = NoOutput
    /\ query = NoQuery
    /\ citation = NoCitation
    /\ book = NoBook

SpecAnyBook == InitAnyBook /\ [][Next]_vars

-----------------------------------------------------------------------------
(* What the properties below speak of, computed from the input alone.      *)

HasMarker(text) == \E i \in 1..Len(text) : text[i] \in {"[", "]", "/", "\\"}

\* The markers of a text, in the order written.
RECURSIVE MarkersOf(_)
MarkersOf(text) ==
    IF text = <<>> THEN <<>>
    ELSE (IF Head(text) \in {"[", "]", "/", "\\"} THEN <<Head(text)>> ELSE <<>>)
         \o MarkersOf(Tail(text))

\* The pieces the markers cut a text into: one more than it has markers.
RECURSIVE PiecesOf(_)
PiecesOf(text) ==
    IF ~HasMarker(text) THEN <<text>>
    ELSE LET i == CHOOSE k \in 1..Len(text) :
                     /\ text[k] \in {"[", "]", "/", "\\"}
                     /\ \A j \in 1..(k - 1) : text[j] \notin {"[", "]", "/", "\\"}
         IN <<SubSeq(text, 1, i - 1)>> \o PiecesOf(SubSeq(text, i + 1, Len(text)))

\* A piece without the blanks around it.
Trimmed(piece) ==
    LET solid == {i \in 1..Len(piece) : piece[i] # " "}
    IN IF solid = {} THEN <<>>
       ELSE SubSeq(piece, CHOOSE i \in solid : \A j \in solid : i <= j,
                          CHOOSE i \in solid : \A j \in solid : j <= i)

\* The segments of a verse text as they are committed: the pieces between
\* its markers without the blanks around them, or the whole text as it is
\* when it has no marker.
SegmentsOf(text) ==
    IF HasMarker(text)
    THEN [i \in 1..Len(PiecesOf(text)) |-> Trimmed(PiecesOf(text)[i])]
    ELSE <<text>>

NonEmpty(segment) == segment # <<>>

\* The style of the current paragraph: "prose", "poetry", or "none" when
\* there is no paragraph yet.
CurrentStyle ==
    IF Len(paragraphs) = 0 THEN "none" ELSE paragraphs[Len(paragraphs)].formatting

\* The first marker of what is left of the verse, "" if there is none.
NextMarker == IF HasMarker(verseText) THEN Head(MarkersOf(verseText)) ELSE ""

\* The while loop of _formatVerse is about to handle marker m.
Handling(m) == pc = "formatVerse" /\ NextMarker = m

\* The call has come back from formatVerses without an exception.
Formatted == pc \in {"formattedText", "returned"}

\* Some verse of the input has a segment that is not empty.
InputHasText ==
    \E i \in 1..Len(verses) :
        \E k \in 1..Len(SegmentsOf(verses[i].text)) :
            NonEmpty(SegmentsOf(verses[i].text)[k])

InputHasMarker == \E i \in 1..Len(verses) : HasMarker(verses[i].text)

\* All the lines of the paragraphs, in paragraph order then line order.
RECURSIVE LinesOf(_)
LinesOf(ps) == IF ps = <<>> THEN <<>> ELSE ps[1].lines \o LinesOf(Tail(ps))

-----------------------------------------------------------------------------
(* C1: a step raises FormattingError exactly when it handles "[" while the *)
(* current paragraph is poetry, "]" while it is prose, or "\" while it is  *)
(* poetry; no other marker and state (no paragraph yet, "/" in any state)  *)
(* and no other step raises it.                                            *)
C1_FormattingErrorExactly ==
    [][ (error' = "FormattingError")
        <=> \/ Handling("[") /\ CurrentStyle = "poetry"
            \/ Handling("]") /\ CurrentStyle = "prose"
            \/ Handling("\\") /\ CurrentStyle = "poetry" ]_vars

\* "\" was handled in the poetry that a "[" had opened, and raised.
C1_Witness ==
    /\ error = "FormattingError"
    /\ NextMarker = "\\"
    /\ CurrentStyle = "poetry"
    /\ Len(paragraphs) = 1

C3_LastParagraphHasLines ==
    (Formatted /\ Len(paragraphs) > 0) => ~isEmpty(paragraphs[Len(paragraphs)])

\* The lines a sequence of verses without markers is to give: one for each
\* verse that has text, with the verse's address.
RECURSIVE VersesWithText(_)
VersesWithText(vs) ==
    IF vs = <<>> THEN <<>>
    ELSE (IF vs[1].text = <<>> THEN <<>> ELSE <<vs[1]>>) \o VersesWithText(Tail(vs))

(* C4, as claimed: verses without markers give exactly one paragraph, of   *)
(* prose, with one line for each verse, in input order, each with the      *)
(* verse's address.                                                        *)
C4_OneLinePerVerse ==
    (Formatted /\ ~InputHasMarker) =>
        paragraphs = <<[formatting |-> "prose", lines |-> verses]>>

(* C4, amended: verses without markers, of which one at least has text,    *)
(* give without an exception exactly one paragraph, of prose, with one     *)
(* line for each verse that has text, in input order, each with the        *)
(* verse's address and the verse's text as it is; a verse whose text is    *)
(* empty gives no line.                                                    *)
C4_OneLinePerVerseWithText ==
    (~InputHasMarker /\ InputHasText) =>
        /\ error = "none"
        /\ Formatted =>
              paragraphs = <<[formatting |-> "prose", lines |-> VersesWithText(verses)]>>

\* Two verses without markers, the first of them blank, have been formatted.
C4_Witness ==
    /\ Formatted
    /\ ~InputHasMarker
    /\ Len(verses) = 2
    /\ verses[1].text = <<" ">>
    /\ Len(paragraphs[1].lines) = 2

\* All the markers of the verses, in the order written.
RECURSIVE InputMarkers(_)
InputMarkers(vs) ==
    IF vs = <<>> THEN <<>> ELSE MarkersOf(vs[1].text) \o InputMarkers(Tail(vs))

\* The non-empty segments among segs[j..] that have exactly `region` markers
\* before them, segs[1] having `seen`.
RECURSIVE Pick(_, _, _, _)
Pick(segs, j, seen, region) ==
    IF j > Len(segs) THEN <<>>
    ELSE (IF seen + j - 1 = region /\ NonEmpty(segs[j]) THEN <<segs[j]>> ELSE <<>>)
         \o Pick(segs, j + 1, seen, region)

\* The non-empty segments of the verses vs that have exactly `region`
\* markers of the input before them, in input order.
RECURSIVE InRegion(_, _, _)
InRegion(vs, seen, region) ==
    IF vs = <<>> THEN <<>>
    ELSE Pick(SegmentsOf(vs[1].text), 1, seen, region)
         \o InRegion(Tail(vs), seen + Len(MarkersOf(vs[1].text)), region)

\* The styles of the paragraphs and the texts of their lines.
Shape(ps) ==
    [i \in 1..Len(ps) |->
        [formatting |-> ps[i].formatting,
         texts |-> [k \in 1..Len(ps[i].lines) |-> ps[i].lines[k].text]]]

Block(formatting, texts) == [formatting |-> formatting, texts |-> texts]

(* C5: verses whose only markers are one "[" and a later "]" are formatted *)
(* without an exception into exactly one poetry paragraph, holding the     *)
(* non-empty segments between the two markers, after a prose paragraph     *)
(* holding the non-empty segments before "[" (if there are any) and before *)
(* a prose paragraph holding those after "]" (if there are any).           *)
C5_PoetryBetweenProse ==
    (InputMarkers(verses) = <<"[", "]">>) =>
        /\ error = "none"
        /\ Formatted =>
              Shape(paragraphs) =
                  (IF InRegion(verses, 0, 0) = <<>> THEN <<>>
                   ELSE <<Block("prose", InRegion(verses, 0, 0))>>)
                  \o <<Block("poetry", InRegion(verses, 0, 1))>>
                  \o (IF InRegion(verses, 0, 2) = <<>> THEN <<>>
                      ELSE <<Block("prose", InRegion(verses, 0, 2))>>)

\* The single verse a[a]a has been formatted into three paragraphs.
C5_Witness ==
    /\ Formatted
    /\ Len(verses) = 1
    /\ verses[1].text = <<"a", "[", "a", "]", "a">>
    /\ Shape(paragraphs) = <<Block("prose", <<<<"a">>>>),
                             Block("poetry", <<<<"a">>>>),
                             Block("prose", <<<<"a">>>>)>>

\* The number of non-empty segments among segs.
RECURSIVE CountNonEmpty(_)
CountNonEmpty(segs) ==
    IF segs = <<>> THEN 0
    ELSE (IF NonEmpty(Head(segs)) THEN 1 ELSE 0) + CountNonEmpty(Tail(segs))

\* The addresses the lines of the verses vs are to carry: for each verse its
\* own address on the line of its first non-empty segment, none on the rest.
RECURSIVE AddressesOf(_)
AddressesOf(vs) ==
    IF vs = <<>> THEN <<>>
    ELSE LET n == CountNonEmpty(SegmentsOf(vs[1].text))
         IN (IF n = 0 THEN <<>> ELSE <<vs[1].addr>> \o [k \in 1..(n - 1) |-> None])
            \o AddressesOf(Tail(vs))

\* The addresses of all the lines, in paragraph order then line order.
LineAddresses(ps) == [i \in 1..Len(LinesOf(ps)) |-> LinesOf(ps)[i].addr]

(* C6: a step adds at most one line; the line it adds carries the pending  *)
(* address, which is the address of the verse being formatted or none, and *)
(* the pending address is none from then on; so that between two verses    *)
(* and after the last, the addresses of the lines are, verse by verse, the *)
(* verse's address on the line of its first non-empty segment and no       *)
(* address on its later lines.                                             *)
C6_AddressOncePerVerse ==
    /\ []((pc = "for" \/ Formatted) =>
              LineAddresses(paragraphs) = AddressesOf(SubSeq(verses, 1, vi)))
    /\ [][ \/ LineAddresses(paragraphs') = LineAddresses(paragraphs)
           \/ /\ LineAddresses(paragraphs') = Append(LineAddresses(paragraphs), verseAddr)
              /\ verseAddr \in {None, verses[vi].addr}
              /\ verseAddr' = None ]_vars

\* Two lines of a first verse and one of a second have been committed.
C6_Witness ==
    /\ Formatted
    /\ Len(verses) = 2
    /\ LineAddresses(paragraphs) = <<verses[1].addr, None, verses[2].addr>>

(* C7: when "/" is handled while the current paragraph is prose, no        *)
(* exception is raised and one paragraph is appended, of poetry, whose     *)
(* only line is the segment before the "/" if that is not empty, and       *)
(* which has no line otherwise; the prose paragraph is left as it was.     *)
C7_LineBreakInProseOpensPoetry ==
    [][ (Handling("/") /\ CurrentStyle = "prose") =>
            LET segment == Trimmed(Head(PiecesOf(verseText)))
            IN /\ error' = "none"
               /\ paragraphs' =
                      Append(paragraphs,
                             [formatting |-> "poetry",
                              lines |-> IF NonEmpty(segment)
                                        THEN <<[addr |-> verseAddr, text |-> segment]>>
                                        ELSE <<>>]) ]_vars

\* The "/" of a second verse a/ has been handled after a first verse of prose.
C7_Witness ==
    /\ pc = "formatVerse"
    /\ vi = 2
    /\ verses[2].text = <<"a", "/">>
    /\ verseText = <<>>
    /\ Shape(paragraphs) = <<Block("prose", <<<<"a">>>>), Block("poetry", <<<<"a">>>>)>>
    /\ paragraphs[2].lines[1].addr = verses[2].addr

(* C8: when a marker handler has raised FormattingError, the call is over  *)
(* and has returned nothing: neither a formatted text nor the paragraphs   *)
(* built before the marker.                                                *)
C8_ErrorAndNoOutput ==
    (error = "FormattingError") => (output = NoOutput /\ ~ENABLED Next)

\* A marker has raised after lines had been committed.
C8_Witness ==
    /\ error = "FormattingError"
    /\ Len(LinesOf(paragraphs)) = 2
    /\ output = NoOutput

(* C9: the rendering of the paragraphs of any book, with or without        *)
(* chapters, gives a text and does not fail.                               *)
C9_RenderingNeverFails == Formatted => formattedText(paragraphs) # TypeError

\* The flowed text of a prose paragraph without an indent.
Flowed(p) == formatProseForConsole(p, TRUE)

\* What paragraph i of ps is to be rendered as.
Rendered(ps, i) ==
    IF ps[i].formatting = "poetry" THEN formatPoetryForConsole(ps[i])
    ELSE IF i = 1 \/ Flowed(ps[i]) = <<>> THEN Flowed(ps[i])
    ELSE <<" ", " ", " ", " ">> \o Flowed(ps[i])

RECURSIVE RenderedFrom(_, _)
RenderedFrom(ps, i) ==
    IF i > Len(ps) THEN <<>>
    ELSE Rendered(ps, i) \o <<"\n">> \o RenderedFrom(ps, i + 1)

(* C10: the text returned is the renderings of the paragraphs in list      *)
(* order, each ended by a newline (the last by the final newline): the     *)
(* paragraph at position 0 without an indent, every prose paragraph at a   *)
(* later position that has lines with four blanks before its flowed text,  *)
(* whatever the styles of the paragraphs before it.                        *)
C10_IndentAfterFirst ==
    (pc = "returned" /\ Len(paragraphs) > 0) => output = RenderedFrom(paragraphs, 1)

\* A text of a poetry paragraph and a prose paragraph after it has been returned.
C10_Witness ==
    /\ pc = "returned"
    /\ Shape(paragraphs) = <<Block("poetry", <<<<"a">>>>), Block("prose", <<<<"a">>>>)>>

-----------------------------------------------------------------------------
(* Citations.  getVerses parses its query with citations.parse, finds the  *)
(* book with books.findBook and fetches from the book's text.  A citation  *)
(* text is a sequence of symbols: a symbol is one character of a verses    *)
(* expression, a blank, or a whole word of a book name.  A string made of  *)
(* words joined without blanks is the sequence of its words.               *)

\* Python's None where a chapter or a verse number is expected.
NoNumber == -1

\* locs.Point(chapter) and locs.Point(chapter, verse)
Point(chapter, verse) == [chapter |-> chapter, verse |-> verse]

\* A location that is a single Point.
PointLoc(point) == [kind |-> "Point", first |-> point, last |-> point]

\* locs.Range(first, last)
Range(first, last) == [kind |-> "Range", first |-> first, last |-> last]

\* str(point)
strPoint(point) ==
    IF point.verse = NoNumber THEN decimal(point.chapter)
    ELSE decimal(point.chapter) \o <<":">> \o decimal(point.verse)

\* str(loc)
strLoc(loc) ==
    IF loc.kind = "Point" THEN strPoint(loc.first)
    ELSE strPoint(loc.first) \o <<"-">> \o strPoint(loc.last)

\* The value of a decimal digit.
digitValue(d) == CHOOSE n \in 0..9 : Digit[n + 1] = d

\* s.isdigit()
isdigit(s) == s # <<>> /\ \A i \in 1..Len(s) : \E n \in 0..9 : Digit[n + 1] = s[i]

\* int(s), for s.isdigit()
RECURSIVE int(_)
int(s) ==
    IF Len(s) = 1 THEN digitValue(s[1])
    ELSE 10 * int(SubSeq(s, 1, Len(s) - 1)) + digitValue(s[Len(s)])

\* s.find(sep) + 1
RECURSIVE find(_, _, _)
find(s, sep, i) ==
    IF i > Len(s) THEN 0 ELSE IF s[i] = sep THEN i ELSE find(s, sep, i + 1)

\* s.split(sep)
RECURSIVE splitOn(_, _)
splitOn(s, sep) ==
    LET i == find(s, sep, 1)
    IN  IF i = 0 THEN <<s>>
        ELSE <<SubSeq(s, 1, i - 1)>> \o splitOn(SubSeq(s, i + 1, Len(s)), sep)

\* s.split(): split on blanks, without the empty pieces.
split(s) == SelectSeq(splitOn(s, " "), LAMBDA t : t # <<>>)

\* s.lower(), symbol by symbol: the only capitals are in "Gn" and "GN".
lower(s) ==
    [i \in 1..Len(s) |-> IF s[i] \in {"Gn", "GN"} THEN "gn" ELSE s[i]]

\* A point that could not be parsed.
BadPoint == [ok |-> FALSE, point |-> Point(NoNumber, NoNumber), chapter |-> NoNumber]

\* A point parser in which a bare number is a chapter wherever it stands.
parsePointLiteral(token, chapter) ==
    LET parts == splitOn(token, ":")
    IN  IF Len(parts) = 1 /\ isdigit(parts[1])
        THEN [ok |-> TRUE, point |-> Point(int(parts[1]), NoNumber), chapter |-> chapter]
        ELSE IF Len(parts) = 2 /\ isdigit(parts[1]) /\ isdigit(parts[2])
        THEN [ok |-> TRUE,
              point |-> Point(int(parts[1]), int(parts[2])),
              chapter |-> int(parts[1])]
        ELSE BadPoint

\* One point of a verses expression, "chapter" or "chapter:verse".  chapter
\* is the chapter of the last "chapter:verse" before it, NoNumber if none:
\* after one, a bare number is a verse of that chapter.
parsePoint(token, chapter) ==
    LET parts == splitOn(token, ":")
    IN  IF Len(parts) = 1 /\ isdigit(parts[1])
        THEN [ok |-> TRUE,
              point |-> IF chapter = NoNumber THEN Point(int(parts[1]), NoNumber)
                        ELSE Point(chapter, int(parts[1])),
              chapter |-> chapter]
        ELSE IF Len(parts) = 2 /\ isdigit(parts[1]) /\ isdigit(parts[2])
        THEN [ok |-> TRUE,
              point |-> Point(int(parts[1]), int(parts[2])),
              chapter |-> int(parts[1])]
        ELSE BadPoint

\* A sub-token parser that keeps only the first point of a range.
parseLocFirstPointOnly(token, chapter) ==
    LET parts == splitOn(token, "-")
        first == parsePoint(parts[1], chapter)
        last == parsePoint(parts[2], first.chapter)
    IN  IF Len(parts) = 1
        THEN [ok |-> first.ok, loc |-> PointLoc(first.point), chapter |-> first.chapter]
        ELSE IF Len(parts) = 2 /\ first.ok
        THEN [ok |-> last.ok, loc |-> PointLoc(first.point), chapter |-> last.chapter]
        ELSE [ok |-> FALSE, loc |-> PointLoc(BadPoint.point), chapter |-> chapter]

\* One comma-separated sub-token: a Point, or a Range of two Points.
parseLoc(token, chapter) ==
    LET parts == splitOn(token, "-")
        first == parsePoint(parts[1], chapter)
        last == parsePoint(parts[2], first.chapter)
    IN  IF Len(parts) = 1
        THEN [ok |-> first.ok, loc |-> PointLoc(first.point), chapter |-> first.chapter]
        ELSE IF Len(parts) = 2 /\ first.ok
        THEN [ok |-> last.ok, loc |-> Range(first.point, last.point),
              chapter |-> last.chapter]
        ELSE [ok |-> FALSE, loc |-> PointLoc(BadPoint.point), chapter |-> chapter]

\* The sub-tokens, left to right.
RECURSIVE parseLocs(_, _)
parseLocs(tokens, chapter) ==
    IF tokens = <<>> THEN [ok |-> TRUE, locs |-> <<>>]
    ELSE LET head == parseLoc(tokens[1], chapter)
             rest == parseLocs(Tail(tokens), head.chapter)
         IN  IF head.ok /\ rest.ok
             THEN [ok |-> TRUE, locs |-> <<head.loc>> \o rest.locs]
             ELSE [ok |-> FALSE, locs |-> <<>>]

\* What a parsing function leaves: an exception, or its result.
Raised(err) == [error |-> err, book |-> <<>>, hasLocs |-> FALSE, locs |-> <<>>]

Returned(name, hasLocs, locs) ==
    [error |-> "none", book |-> name, hasLocs |-> hasLocs, locs |-> locs]

\* A parser of verses expressions with one condition for None and for ''.
parseVersesTokenOneCondition(isNone, token) ==
    IF isNone \/ token = <<>> THEN Raised("ValueError")
    ELSE LET r == parseLocs(splitOn(token, ","), NoNumber)
         IN  IF r.ok THEN Returned(<<>>, TRUE, r.locs) ELSE Raised("ValueError")

\* The verses expression of a citation: None is the "missing input"
\* condition, an empty or unparsable expression the "malformed citation" one.
parseVersesToken(isNone, token) ==
    IF isNone THEN Raised("TypeError")
    ELSE IF token = <<>> THEN Raised("ValueError")
    ELSE LET r == parseLocs(splitOn(token, ","), NoNumber)
         IN  IF r.ok THEN Returned(<<>>, TRUE, r.locs) ELSE Raised("ValueError")

\* The books of the registry: the name and the abbreviations a token is
\* matched against, lower-cased and without blanks, and the verses of the text.
Genesis ==
    [normalName |-> <<"genesis">>, normalAbbreviations |-> {<<"gn">>},
     text |-> <<[addr |-> PairAddr(1, 1), text |-> <<"a">>],
                [addr |-> PairAddr(1, 2), text |-> <<"a", " ", "a">>],
                [addr |-> PairAddr(2, 1), text |-> <<"a", "a">>]>>]

Samuel1 ==
    [normalName |-> <<"1", "samuel">>, normalAbbreviations |-> {},
     text |-> <<[addr |-> PairAddr(1, 1), text |-> <<"a", "\\", "a">>],
                [addr |-> PairAddr(1, 2), text |-> <<"a", "a">>]>>]

SongOfSongs ==
    [normalName |-> <<"song", "of", "songs">>, normalAbbreviations |-> {<<"song">>},
     text |-> <<[addr |-> PairAddr(1, 1), text |-> <<"[", "a", "/", "a", "]">>]>>]

Books == <<Genesis, Samuel1, SongOfSongs>>

\* book.matchesToken(token)
matchesToken(b, token) ==
    lower(token) = b.normalName \/ lower(token) \in b.normalAbbreviations

\* books.findBook(token): the first book the token matches, or None.
findBook(token) ==
    IF \E i \in 1..Len(Books) : matchesToken(Books[i], token)
    THEN Books[CHOOSE i \in 1..Len(Books) :
                   /\ matchesToken(Books[i], token)
                   /\ \A j \in 1..(i - 1) : ~matchesToken(Books[j], token)]
    ELSE NoBook

\* Book matching that returns no book where nothing matches.
NoMatchReturningNone == [error |-> "none", book |-> <<>>, rest |-> <<>>]

\* What greedy book matching leaves: an exception, or the book and the
\* tokens after its name.
NoMatch == [error |-> "BookNotFound", book |-> <<>>, rest |-> <<>>]

\* The first n tokens, then the first n - 1, ... : the first that match win.
RECURSIVE matchLeading(_, _)
matchLeading(tokens, n) ==
    IF n = 0 THEN NoMatch
    ELSE IF findBook(join(<<>>, SubSeq(tokens, 1, n))) # NoBook
    THEN [error |-> "none",
          book |-> findBook(join(<<>>, SubSeq(tokens, 1, n))).normalName,
          rest |-> SubSeq(tokens, n + 1, Len(tokens))]
    ELSE matchLeading(tokens, n - 1)

\* Book matching that is not greedy: the first token, then the first two,
\* ... : the shortest leading tokens that match win.
RECURSIVE matchShortest(_, _)
matchShortest(tokens, n) ==
    IF n > Len(tokens) THEN NoMatch
    ELSE IF findBook(join(<<>>, SubSeq(tokens, 1, n))) # NoBook
    THEN [error |-> "none",
          book |-> findBook(join(<<>>, SubSeq(tokens, 1, n))).normalName,
          rest |-> SubSeq(tokens, n + 1, Len(tokens))]
    ELSE matchShortest(tokens, n + 1)

parseBookTokensShortestFirst(tokens) == matchShortest(tokens, 1)

\* Greedy book matching: from the full token list downwards.
parseBookTokensGreedily(tokens) == matchLeading(tokens, Len(tokens))

\* The punctuation of a verses expression.
Punctuation == {",", "-", ":"}

\* s without the blanks that touch a punctuation character
RECURSIVE stripAroundPunctuation(_, _)
stripAroundPunctuation(s, i) ==
    IF i > Len(s) THEN <<>>
    ELSE (IF /\ s[i] = " "
             /\ \/ (i > 1 /\ s[i - 1] \in Punctuation)
                \/ (i < Len(s) /\ s[i + 1] \in Punctuation)
          THEN <<>> ELSE <<s[i]>>) \o stripAroundPunctuation(s, i + 1)

\* The verses expression: the tokens after the book, joined back.
versesExpr(tokens) == stripAroundPunctuation(join(<<" ">>, tokens), 1)

\* citations.parse(query)
parse(isNone, text) ==
    IF isNone THEN Raised("TypeError")
    ELSE IF split(text) = <<>> THEN Raised("ValueError")
    ELSE LET m == parseBookTokensGreedily(split(text))
             v == parseVersesToken(FALSE, versesExpr(m.rest))
         IN  IF m.error # "none" THEN Raised(m.error)
             ELSE IF m.rest = <<>> THEN Returned(m.book, FALSE, <<>>)
             ELSE IF v.error # "none" THEN v
             ELSE Returned(m.book, TRUE, v.locs)

\* Whether the point is at or before the address, as the start of a range.
startsBy(point, addr) ==
    \/ point.chapter < addr.chapter
    \/ point.chapter = addr.chapter /\ (point.verse = NoNumber \/ point.verse <= addr.verse)

\* Whether the point is at or after the address, as the end of a range.
endsBy(point, addr) ==
    \/ point.chapter > addr.chapter
    \/ point.chapter = addr.chapter /\ (point.verse = NoNumber \/ point.verse >= addr.verse)

\* book.text.getAllVerses()
getAllVerses(b) == b.text

\* book.text.getRangeOfVerses(loc): a chapter, a verse, or the verses from
\* the first point of a range to its last, bounds included.
getRangeOfVerses(b, loc) ==
    SelectSeq(b.text, LAMBDA v : startsBy(loc.first, v.addr) /\ endsBy(loc.last, v.addr))

\* A fetch in the order of the book, each verse once.
chainSortedOnce(b, locs) ==
    SelectSeq(b.text, LAMBDA v :
        \E i \in 1..Len(locs) :
            \E j \in 1..Len(getRangeOfVerses(b, locs[i])) :
                getRangeOfVerses(b, locs[i])[j] = v)

\* list(itertools.chain.from_iterable(...)) over the locations
RECURSIVE chain(_, _)
chain(b, locs) ==
    IF locs = <<>> THEN <<>>
    ELSE getRangeOfVerses(b, locs[1]) \o chain(b, Tail(locs))

-----------------------------------------------------------------------------
(* The citation calls, step by step: parseVersesToken on a verses          *)
(* expression, citations.parse on a citation, getVerses on a query.        *)

\* The characters of the modelled verses expressions.
ExprChar == {"1", "2", ":", "-", ","}

\* The verses expressions of parseVersesTokenTestCase.
TestExprs ==
    { <<"1">>,
      <<"1", "-", "2">>,
      <<"1", ",", "3">>,
      <<"1", "-", "2", ",", "4">>,
      <<"1", ":", "1">>,
      <<"1", ":", "1", "-", "2">>,
      <<"1", ":", "1", ",", "3">>,
      <<"1", ":", "1", "-", "2", ",", "4">>,
      <<"1", ":", "1", "-", "2", ":", "1">>,
      <<"1", ":", "1", ",", "2", ":", "1">>,
      <<"1", ":", "1", ",", "3", ",", "2", ":", "1">>,
      <<"1", ":", "1", ",", "3", "-", "2", ":", "1">>,
      <<"1", ":", "2", "-", "3", ":", "4">> }

\* The words a citation starts with: names and abbreviations of books, in
\* full, in part and in capitals, and words that name no book.
BookInputs ==
    { <<>>, <<"gn">>, <<"Gn">>, <<"GN">>, <<"genesis">>, <<"1", "samuel">>,
      <<"samuel">>, <<"song">>, <<"song", "of">>, <<"song", "of", "songs">>,
      <<"foo">>, <<"foo", "bar", "zod">> }

\* The text of a citation: the words, then the characters after them.
CitationText(words, rest) ==
    join(<<" ">>, [i \in 1..Len(words) |-> <<words[i]>>])
        \o (IF words = <<>> \/ rest = <<>> THEN <<>> ELSE <<" ">>) \o rest

Call(entry, isNone, text) == [entry |-> entry, isNone |-> isNone, text |-> text]

InitCitation ==
    /\ \/ \E entry \in {"parseVersesToken", "parse", "getVerses"} :
             query = Call(entry, TRUE, <<>>)
       \/ \E n \in 0..MaxExprLen : \E text \in [1..n -> ExprChar] :
             query = Call("parseVersesToken", FALSE, text)
       \/ \E text \in TestExprs :
             query = Call("parseVersesToken", FALSE, text)
       \/ \E entry \in {"parse", "getVerses"} : \E words \in BookInputs :
             \/ \E text \in TestExprs :
                   query = Call(entry, FALSE, CitationText(words, text))
             \/ \E n \in 0..MaxRestLen : \E text \in [1..n -> ExprChar \cup {" "}] :
                   query = Call(entry, FALSE, CitationText(words, text))
    /\ pc = IF query.entry = "parseVersesToken" THEN "parseVersesToken" ELSE "parse"
    /\ citation = NoCitation
    /\ book = NoBook
    /\ verses = <<>>
    /\ vi = 0
    /\ verseText = <<>>
    /\ paragraphs = <<>>
    /\ verseAddr = None
    /\ error = "none"
    /\ output = NoOutput

\* The end of a parsing call that left r: an exception ends the call.
Parsed(r, next) ==
    /\ error' = r.error
    /\ IF r.error = "none"
       THEN /\ citation' = [book |-> r.book, hasLocs |-> r.hasLocs, locs |-> r.locs]
            /\ pc' = next
       ELSE /\ UNCHANGED citation
            /\ pc' = "raised"
    /\ UNCHANGED <<query, book, verses, vi, verseText, paragraphs, verseAddr, output>>

\* parseVersesToken(token)
ParseVersesToken ==
    /\ pc = "parseVersesToken"
    /\ Parsed(parseVersesToken(query.isNone, query.text), "parsed")

\* citations.parse(query), called on its own or as the first call of getVerses
Parse ==
    /\ pc = "parse"
    /\ Parsed(parse(query.isNone, query.text),
              IF query.entry = "getVerses" THEN "findBook" ELSE "parsed")

\* getVerses: book = books.findBook(citation.book)
FindBook ==
    /\ pc = "findBook"
    /\ book' = findBook(citation.book)
    /\ pc' = "fetch"
    /\ UNCHANGED <<query, citation, error, verses, vi, verseText, paragraphs,
                   verseAddr, output>>

\* A getVerses that fetches per location whether or not there are locations.
GetAllVersesPerLocation ==
    /\ pc = "fetch"
    /\ ~citation.hasLocs
    /\ verses' = chain(book, citation.locs)
    /\ pc' = "gotVerses"
    /\ UNCHANGED <<query, citation, book, error, vi, verseText, paragraphs,
                   verseAddr, output>>

\* getVerses: the citation of an entire book returns all its verses.
GetAllVerses ==
    /\ pc = "fetch"
    /\ ~citation.hasLocs
    /\ verses' = getAllVerses(book)
    /\ pc' = "gotVerses"
    /\ UNCHANGED <<query, citation, book, error, vi, verseText, paragraphs,
                   verseAddr, output>>

\* getVerses: otherwise the verses of each location, one after the other.
GetRangesOfVerses ==
    /\ pc = "fetch"
    /\ citation.hasLocs
    /\ verses' = chain(book, citation.locs)
    /\ pc' = "gotVerses"
    /\ UNCHANGED <<query, citation, book, error, vi, verseText, paragraphs,
                   verseAddr, output>>

NextCitation ==
    \/ ParseVersesToken
    \/ Parse
    \/ FindBook
    \/ GetAllVerses
    \/ GetRangesOfVerses

SpecCitation == InitCitation /\ [][NextCitation]_vars

\* main: the citation of the command line, as one query to getVerses.
InitMain ==
    /\ InitCitation
    /\ query.entry = "getVerses"

\* main: formatVersesForConsole(verses) on the verses getVerses returned.
FormatVersesForConsole ==
    /\ pc = "gotVerses"
    /\ pc' = "for"
    /\ UNCHANGED <<verses, vi, verseText, paragraphs, verseAddr, error, output,
                   citationVars>>

NextMain ==
    \/ Parse
    \/ FindBook
    \/ GetAllVerses
    \/ GetRangesOfVerses
    \/ FormatVersesForConsole
    \/ FetchVerse
    \/ PoetryBegin
    \/ PoetryEnd
    \/ PoetryLineBreak
    \/ ParagraphBreak
    \/ CommitRest
    \/ Trim
    \/ Return

SpecMain == InitMain /\ [][NextMain]_vars

-----------------------------------------------------------------------------
(* What the properties of the citation calls speak of.                     *)

\* citations.parse was called on a string and has ended.
ParseEnded == query.entry \in {"parse", "getVerses"} /\ ~query.isNone /\ pc # "parse"

\* The tokens of the citation.
Tokens == split(query.text)

\* The lengths of the leading token subsequences that match a registry entry.
MatchingLengths ==
    {n \in 1..Len(Tokens) : \E i \in 1..Len(Books) :
         matchesToken(Books[i], join(<<>>, SubSeq(Tokens, 1, n)))}

Longest == CHOOSE n \in MatchingLengths : \A m \in MatchingLengths : m <= n

\* The book the longest matching subsequence names, and the tokens after it.
LongestBook ==
    Books[CHOOSE i \in 1..Len(Books) :
              matchesToken(Books[i], join(<<>>, SubSeq(Tokens, 1, Longest)))].normalName

AfterLongest == SubSeq(Tokens, Longest + 1, Len(Tokens))

SongOfSongsQuery ==
    <<"song", " ", "of", " ", "songs", " ", "1", ":", "2", "-", "3", ":", "4">>

Samuel1Query == <<"1", " ", "samuel", " ", "1", ":", "2", "-", "3", ":", "4">>

(* C11: book matching is greedy.  When some leading tokens of the citation  *)
(* match a registry entry, the book of the citation is the one the longest  *)
(* matching subsequence names and the locations are parsed from the tokens  *)
(* after it alone, so the call fails only if those do not parse; `song of   *)
(* songs 1:2-3:4` and `1 samuel 1:2-3:4` give the book of all the words     *)
(* and the one range 1:2-3:4.                                               *)
C11_LongestMatchWins ==
    ParseEnded =>
        /\ MatchingLengths # {} =>
              LET v == parseVersesToken(FALSE, versesExpr(AfterLongest))
              IN  IF AfterLongest = <<>>
                  THEN error = "none" /\ citation.book = LongestBook /\ ~citation.hasLocs
                  ELSE /\ error = v.error
                       /\ error = "none" =>
                             /\ citation.book = LongestBook
                             /\ citation.hasLocs
                             /\ citation.locs = v.locs
        /\ query.text = SongOfSongsQuery =>
              citation = [book |-> <<"song", "of", "songs">>, hasLocs |-> TRUE,
                          locs |-> <<Range(Point(1, 2), Point(3, 4))>>]
        /\ query.text = Samuel1Query =>
              citation = [book |-> <<"1", "samuel">>, hasLocs |-> TRUE,
                          locs |-> <<Range(Point(1, 2), Point(3, 4))>>]

\* `song of songs 1:2-3:4` was parsed: two leading subsequences match.
C11_Witness ==
    /\ pc = "parsed"
    /\ query.text = SongOfSongsQuery
    /\ MatchingLengths = {1, 3}
    /\ citation.book = <<"song", "of", "songs">>

CallEnded == pc \notin {"parse", "parseVersesToken"}

(* C13: citation parsing and verses-expression parsing raise TypeError on   *)
(* None and ValueError on the empty string, and return no citation in       *)
(* either case.                                                             *)
C13_NoneAndEmptyRaise ==
    CallEnded =>
        /\ query.isNone =>
              pc = "raised" /\ error = "TypeError" /\ citation = NoCitation
        /\ ~query.isNone /\ query.text = <<>> =>
              pc = "raised" /\ error = "ValueError" /\ citation = NoCitation

\* parseVersesToken(None) has raised: the condition differs from that of ''.
C13_Witness ==
    /\ query.entry = "parseVersesToken"
    /\ query.isNone
    /\ pc = "raised"
    /\ error = "TypeError"

\* parseVersesToken was called on its own and returned.
ExprParsed == query.entry = "parseVersesToken" /\ pc = "parsed"

\* Whether the character c is written in s.
Written(c, s) == \E i \in 1..Len(s) : s[i] = c

\* The comma-separated sub-tokens of the expression, as written.
SubTokens == splitOn(query.text, ",")

\* The points of the expression as written, left to right: each sub-token
\* is one point, or the two points around its hyphen.
RECURSIVE PointTokens(_)
PointTokens(subTokens) ==
    IF subTokens = <<>> THEN <<>>
    ELSE splitOn(subTokens[1], "-") \o PointTokens(Tail(subTokens))

\* Every number of the expression is written out: no point without a colon
\* follows a point with one.
AllExplicit ==
    LET points == PointTokens(SubTokens)
    IN  \A i, j \in 1..Len(points) :
            i < j /\ Written(":", points[i]) => Written(":", points[j])

\* str of the locations, joined with commas.
strLocs(locs) == join(<<",">>, [i \in 1..Len(locs) |-> strLoc(locs[i])])

\* The expressions of the tests in which every number is written out, with
\* the locations the tests expect.
ExplicitTests ==
    { [expr |-> <<"1">>, locs |-> <<PointLoc(Point(1, NoNumber))>>],
      [expr |-> <<"1", "-", "2">>,
       locs |-> <<Range(Point(1, NoNumber), Point(2, NoNumber))>>],
      [expr |-> <<"1", ",", "3">>,
       locs |-> <<PointLoc(Point(1, NoNumber)), PointLoc(Point(3, NoNumber))>>],
      [expr |-> <<"1", "-", "2", ",", "4">>,
       locs |-> <<Range(Point(1, NoNumber), Point(2, NoNumber)),
                  PointLoc(Point(4, NoNumber))>>],
      [expr |-> <<"1", ":", "1">>, locs |-> <<PointLoc(Point(1, 1))>>],
      [expr |-> <<"1", ":", "1", "-", "2", ":", "1">>,
       locs |-> <<Range(Point(1, 1), Point(2, 1))>>],
      [expr |-> <<"1", ":", "1", ",", "2", ":", "1">>,
       locs |-> <<PointLoc(Point(1, 1)), PointLoc(Point(2, 1))>>],
      [expr |-> <<"1", ":", "2", "-", "3", ":", "4">>,
       locs |-> <<Range(Point(1, 2), Point(3, 4))>>] }

\* The call on the expression t, alone or after `gn`, has the locations ls.
Expects(t, ls) ==
    /\ CallEnded /\ query = Call("parseVersesToken", FALSE, t) =>
          pc = "parsed" /\ citation.locs = ls
    /\ ParseEnded /\ query.text = CitationText(<<"gn">>, t) =>
          /\ error = "none"
          /\ citation = [book |-> <<"genesis">>, hasLocs |-> TRUE, locs |-> ls]

(* C14: a parsed verses expression yields one location per comma-separated  *)
(* sub-token, in the order written, a Range exactly for the sub-tokens with *)
(* a hyphen and a Point for the others; where every number is written out, *)
(* the locations print back as the expression, so chapters and verses are   *)
(* the numbers written.  `N`, `N-M`, `N,M`, `N:V-M:W` and the other         *)
(* written-out expressions of the tests give the locations the tests        *)
(* expect.                                                                  *)
C14_OneLocPerSubToken ==
    /\ ExprParsed =>
          /\ Len(citation.locs) = Len(SubTokens)
          /\ \A i \in 1..Len(SubTokens) :
                citation.locs[i].kind =
                    IF Written("-", SubTokens[i]) THEN "Range" ELSE "Point"
          /\ AllExplicit => strLocs(citation.locs) = query.text
    /\ \A t \in ExplicitTests : Expects(t.expr, t.locs)

\* `1:1-2:1` was parsed on its own: one cross-chapter Range.
C14_Witness ==
    /\ ExprParsed
    /\ query.text = <<"1", ":", "1", "-", "2", ":", "1">>
    /\ citation.locs = <<Range(Point(1, 1), Point(2, 1))>>

\* The points of the locations, left to right: the point of a Point, the
\* two points of a Range.
RECURSIVE PointsOf(_)
PointsOf(locs) ==
    IF locs = <<>> THEN <<>>
    ELSE (IF locs[1].kind = "Point" THEN <<locs[1].first>>
          ELSE <<locs[1].first, locs[1].last>>) \o PointsOf(Tail(locs))

\* The chapter written in the last `chapter:verse` point before the j-th
\* written point, NoNumber if there is none.
ChapterBefore(points, j) ==
    LET with == {i \in 1..(j - 1) : Written(":", points[i])}
        last == CHOOSE i \in with : \A k \in with : k <= i
    IN  IF with = {} THEN NoNumber ELSE int(splitOn(points[last], ":")[1])

\* The expressions of the tests with a bare number after a `chapter:verse`,
\* with the locations the tests expect.
InheritingTests ==
    { [expr |-> <<"1", ":", "1", "-", "2">>,
       locs |-> <<Range(Point(1, 1), Point(1, 2))>>],
      [expr |-> <<"1", ":", "1", ",", "3">>,
       locs |-> <<PointLoc(Point(1, 1)), PointLoc(Point(1, 3))>>],
      [expr |-> <<"1", ":", "1", "-", "2", ",", "4">>,
       locs |-> <<Range(Point(1, 1), Point(1, 2)), PointLoc(Point(1, 4))>>],
      [expr |-> <<"1", ":", "1", ",", "3", ",", "2", ":", "1">>,
       locs |-> <<PointLoc(Point(1, 1)), PointLoc(Point(1, 3)),
                  PointLoc(Point(2, 1))>>],
      [expr |-> <<"1", ":", "1", ",", "3", "-", "2", ":", "1">>,
       locs |-> <<PointLoc(Point(1, 1)), Range(Point(1, 3), Point(2, 1))>>] }

(* C15: in a parsed verses expression a bare number is a chapter while no   *)
(* `chapter:verse` point has been written before it, and a verse of the     *)
(* most recently written chapter once one has; `1:1-2`, `1:1,3`,            *)
(* `1:1,3-2:1` and the other such expressions of the tests give the         *)
(* locations the tests expect.                                              *)
C15_BareNumberAfterColonIsVerse ==
    /\ ExprParsed =>
          LET written == PointTokens(SubTokens)
              points == PointsOf(citation.locs)
          IN  /\ Len(points) = Len(written)
              /\ \A j \in 1..Len(written) :
                    ~Written(":", written[j]) =>
                        points[j] =
                            IF ChapterBefore(written, j) = NoNumber
                            THEN Point(int(written[j]), NoNumber)
                            ELSE Point(ChapterBefore(written, j), int(written[j]))
    /\ \A t \in InheritingTests : Expects(t.expr, t.locs)

\* `2:2,1` was parsed on its own: the bare 1 is verse 1 of chapter 2.
C15_Witness ==
    /\ ExprParsed
    /\ query.text = <<"2", ":", "2", ",", "1">>
    /\ citation.locs = <<PointLoc(Point(2, 2)), PointLoc(Point(2, 1))>>

\* The citation is the name or an abbreviation of a book and nothing else.
BookOnly == Tokens # <<>> /\ Len(Tokens) \in MatchingLengths

(* C16: a citation of book tokens only parses to a citation without         *)
(* locations (`gn` to genesis, `1 samuel` to 1samuel), and getVerses on a   *)
(* citation without locations returns all the verses of the text of its     *)
(* book.                                                                    *)
C16_BookOnlyIsWholeBook ==
    /\ ParseEnded /\ BookOnly =>
          error = "none" /\ citation.book = LongestBook /\ ~citation.hasLocs
    /\ ParseEnded /\ query.text = <<"gn">> =>
          citation = [book |-> <<"genesis">>, hasLocs |-> FALSE, locs |-> <<>>]
    /\ ParseEnded /\ query.text = <<"1", " ", "samuel">> =>
          citation = [book |-> <<"1", "samuel">>, hasLocs |-> FALSE, locs |-> <<>>]
    /\ pc = "gotVerses" /\ ~citation.hasLocs =>
          \E i \in 1..Len(Books) :
              /\ Books[i].normalName = citation.book
              /\ verses = Books[i].text

\* getVerses('gn') has returned the three verses of the text of genesis.
C16_Witness ==
    /\ query = Call("getVerses", FALSE, <<"gn">>)
    /\ pc = "gotVerses"
    /\ ~citation.hasLocs
    /\ Len(verses) = 3

-----------------------------------------------------------------------------
(* C17, as claimed: whenever "/" is handled the current paragraph is poetry *)
(* afterwards; if it was not poetry before, or there was no paragraph yet,  *)
(* a poetry paragraph has been appended; and the segment before the "/",    *)
(* if not empty, is the last line of that poetry paragraph.                 *)
C17_LineBreakLeavesPoetry ==
    [][ Handling("/") =>
            LET segment == Trimmed(Head(PiecesOf(verseText)))
            IN /\ CurrentStyle' = "poetry"
               /\ CurrentStyle # "poetry" =>
                     Len(paragraphs') = Len(paragraphs) + 1
               /\ NonEmpty(segment) =>
                     LET lines == paragraphs'[Len(paragraphs')].lines
                     IN  lines # <<>> /\ lines[Len(lines)].text = segment ]_vars

\* The segment the marker about to be handled closes off.
Segment == Trimmed(Head(PiecesOf(verseText)))

\* The paragraphs after the segment is committed: a segment that is not
\* empty becomes a line, with the pending address, of the current paragraph,
\* or of a new prose paragraph if there is none.
Committed ==
    LET line == [addr |-> verseAddr, text |-> Segment]
        last == Len(paragraphs)
    IN  IF ~NonEmpty(Segment) THEN paragraphs
        ELSE IF last = 0 THEN <<[formatting |-> "prose", lines |-> <<line>>]>>
        ELSE [paragraphs EXCEPT ![last].lines = Append(@, line)]

\* An empty paragraph of the given formatting.
Empty(formatting) == [formatting |-> formatting, lines |-> <<>>]

(* C18: when "[" is handled without error, the paragraphs afterwards are    *)
(* those with the segment committed, without their last paragraph if and    *)
(* only if it then has no lines, and with a new empty poetry paragraph      *)
(* appended; the paragraph before the new one, if any, is not an empty      *)
(* prose paragraph.                                                         *)
C18_PoetryBeginDropsEmpty ==
    [][ (Handling("[") /\ error' = "none") =>
            LET kept == IF Committed # <<>> /\ Committed[Len(Committed)].lines = <<>>
                        THEN SubSeq(Committed, 1, Len(Committed) - 1)
                        ELSE Committed
            IN /\ paragraphs' = Append(kept, Empty("poetry"))
               /\ kept # <<>> => kept[Len(kept)] # Empty("prose") ]_vars

\* The "[" of a second verse was handled right after the "]" that ended the
\* first: the two poetry paragraphs are adjacent.
C18_Witness ==
    /\ pc = "formatVerse"
    /\ vi = 2
    /\ verses[1].text = <<"[", "a", "]">>
    /\ verses[2].text = <<"[">>
    /\ verseText = <<>>
    /\ paragraphs = <<[formatting |-> "poetry",
                       lines |-> <<[addr |-> verses[1].addr, text |-> <<"a">>]>>],
                      Empty("poetry")>>

(* C19: when "\" is handled without error, the paragraphs afterwards are    *)
(* those with the segment committed, with a new empty prose paragraph       *)
(* appended if and only if the current paragraph then has at least one      *)
(* line; if it has none the paragraph list is left as it was.               *)
C19_ParagraphBreakAppendsUnlessEmpty ==
    [][ (Handling("\\") /\ error' = "none") =>
            /\ Committed # <<>>
            /\ paragraphs' =
                   IF Committed[Len(Committed)].lines # <<>>
                   THEN Append(Committed, Empty("prose"))
                   ELSE paragraphs ]_vars

\* The "\" right after the "]" of [a]\ was handled: one empty prose paragraph
\* is at the end, not two.
C19_Witness ==
    /\ pc = "formatVerse"
    /\ Len(verses) = 1
    /\ verses[1].text = <<"[", "a", "]", "\\">>
    /\ verseText = <<>>
    /\ Shape(paragraphs) = <<Block("poetry", <<<<"a">>>>), Block("prose", <<>>)>>

\* The call is over: it has returned or an exception has ended it.
Done == pc \in {"returned", "raised"}

\* What is left to do, counted in steps: the verses not yet fetched with
\* their characters, the characters left of the verse being scanned, and the
\* steps after the loop.  It is at most the size of the input plus two per
\* verse plus two.
RECURSIVE Unfetched(_, _)
Unfetched(vs, i) ==
    IF i >= Len(vs) THEN 0 ELSE Len(vs[i + 1].text) + 2 + Unfetched(vs, i + 1)

Measure ==
    IF Done THEN 0
    ELSE IF pc = "formattedText" THEN 1
    ELSE 2 + Unfetched(verses, vi)
           + (IF pc = "formatVerse" THEN Len(verseText) + 1 ELSE 0)

\* The texts of the lines, in order.
TextsOf(lines) == [i \in 1..Len(lines) |-> lines[i].text]

\* The non-empty segments of a text, in order.
SegmentTexts(text) == SelectSeq(SegmentsOf(text), NonEmpty)

\* The non-empty segments of the first n verses, in order.
RECURSIVE SegmentsUpTo(_, _)
SegmentsUpTo(vs, n) ==
    IF n = 0 THEN <<>> ELSE SegmentsUpTo(vs, n - 1) \o SegmentTexts(vs[n].text)

\* The text after the first marker of a text that has one.
AfterFirstMarker(text) ==
    SubSeq(text, Len(Head(PiecesOf(text))) + 2, Len(text))

\* The line list with the segment added, if it is not empty.
WithLine(lines, segment) ==
    IF NonEmpty(segment) THEN Append(lines, [addr |-> verseAddr, text |-> segment])
    ELSE lines

\* The call is at a step it can take: the loop with verses left or none,
\* the scan of a fetched verse, or the return.
AtAStep ==
    \/ (pc = "for" /\ vi <= Len(verses))
    \/ (pc = "formatVerse" /\ vi \in 1..Len(verses))
    \/ pc = "formattedText"

(* C20: the formatting terminates: every step lowers a measure that is a   *)
(* natural number bounded by the size of the input, and a call that has     *)
(* neither returned nor raised is at a step that can be taken (the loop     *)
(* with verses left or none, the scan of a verse, the return).  Within a    *)
(* verse each step of                                                       *)
(* the scan handles the first marker left, with the text before it as its   *)
(* segment, and leaves the text after it; the step that finds no marker     *)
(* commits what is left and ends the verse.  So while no exception is       *)
(* raised the lines committed, followed by the segments still to scan, are  *)
(* the segments of the verses fetched, each once and in order.              *)
C20_TerminatesMarkersInOrder ==
    /\ [](/\ Measure >= 0
          /\ ~Done => AtAStep
          /\ (pc \in {"for", "formatVerse"} /\ error = "none") =>
                TextsOf(LinesOf(paragraphs))
                    \o (IF pc = "formatVerse" THEN SegmentTexts(verseText) ELSE <<>>)
                = SegmentsUpTo(verses, vi))
    /\ [][ /\ Measure' < Measure
           /\ (pc = "formatVerse" /\ HasMarker(verseText)) =>
                 /\ Handling(Head(MarkersOf(verseText)))
                 /\ error' = "none" =>
                       /\ pc' = "formatVerse"
                       /\ verseText' = Trimmed(AfterFirstMarker(verseText))
                       /\ MarkersOf(verseText') = Tail(MarkersOf(verseText))
                       /\ LinesOf(paragraphs') = WithLine(LinesOf(paragraphs), Segment)
           /\ (pc = "formatVerse" /\ ~HasMarker(verseText)) =>
                 /\ pc' = "for"
                 /\ LinesOf(paragraphs') = WithLine(LinesOf(paragraphs), verseText) ]_vars

\* The call on the single verse a[a]a has returned: three steps handled
\* "[", "]" and the rest, in that order.
C20_Witness ==
    /\ pc = "returned"
    /\ Len(verses) = 1
    /\ verses[1].text = <<"a", "[", "a", "]", "a">>
    /\ TextsOf(LinesOf(paragraphs)) = <<<<"a">>, <<"a">>, <<"a">>>>
    /\ Measure = 0

-----------------------------------------------------------------------------
\* Whether the sequence s is the beginning of the sequence t.
IsPrefix(s, t) == Len(s) <= Len(t) /\ SubSeq(t, 1, Len(s)) = s

(* C21: in every step, every paragraph but the last stays in the list as it *)
(* is, and the last paragraph either stays with its style and its lines,    *)
(* possibly with new lines after them, or has no lines when it is removed;  *)
(* so lines are only ever added to the paragraph that is last, and only     *)
(* paragraphs without lines are removed.                                    *)
C21_OnlyLastParagraphChanges ==
    [][ LET n == Len(paragraphs)
        IN  /\ \A i \in 1..(n - 1) :
                  i <= Len(paragraphs') /\ paragraphs'[i] = paragraphs[i]
            /\ n > 0 =>
                  \/ paragraphs[n].lines = <<>>
                  \/ /\ n <= Len(paragraphs')
                     /\ paragraphs'[n].formatting = paragraphs[n].formatting
                     /\ IsPrefix(paragraphs[n].lines, paragraphs'[n].lines) ]_vars

\* The trim after the verses a and "[" has removed the empty poetry paragraph
\* that "[" had appended; the prose paragraph before it is as it was.
C21_Witness ==
    /\ pc = "formattedText"
    /\ Len(verses) = 2
    /\ verses[1].text = <<"a">>
    /\ verses[2].text = <<"[">>
    /\ paragraphs = <<[formatting |-> "prose",
                       lines |-> <<[addr |-> verses[1].addr, text |-> <<"a">>]>>]>>

(* C22: when the pass has completed without an exception, the texts of the  *)
(* lines of the paragraphs, in paragraph order then line order, are the     *)
(* non-empty segments of the verses in input order: none lost, doubled,     *)
(* moved or invented; and at no point does a paragraph hold a line whose    *)
(* text is empty.                                                           *)
C22_LinesAreTheSegments ==
    /\ Formatted => TextsOf(LinesOf(paragraphs)) = SegmentsUpTo(verses, Len(verses))
    /\ \A i \in 1..Len(paragraphs) : \A j \in 1..Len(paragraphs[i].lines) :
          paragraphs[i].lines[j].text # <<>>

\* The verses a[ and /a have been formatted: the lines a and a, in two
\* paragraphs, and no line for the empty segments around "[" and "/".
C22_Witness ==
    /\ Formatted
    /\ Len(verses) = 2
    /\ verses[1].text = <<"a", "[">>
    /\ verses[2].text = <<"/", "a">>
    /\ Shape(paragraphs) = <<Block("prose", <<<<"a">>>>), Block("poetry", <<<<"a">>>>)>>


-----------------------------------------------------------------------------
\* getVerses has returned: the book was found and its verses fetched.
GotVerses == query.entry = "getVerses" /\ book # NoBook /\ pc # "fetch"

\* What the text store returns for each of the locations, one result after
\* the other in the order of the locations.
RECURSIVE Concatenated(_)
Concatenated(locs) ==
    IF locs = <<>> THEN <<>>
    ELSE getRangeOfVerses(book, locs[1]) \o Concatenated(Tail(locs))

\* The addresses of the verses vs, in order.
VerseAddrs(vs) == [i \in 1..Len(vs) |-> vs[i].addr]

\* A citation of Genesis whose verses expression is rest.
Gn(rest) == <<"gn", " ">> \o rest

-----------------------------------------------------------------------------
(* C24, as claimed: for every non-empty sequence of verses the pass ends by *)
(* producing its paragraphs or by raising FormattingError; no other         *)
(* exception is raised, in particular no IndexError for the last paragraph  *)
(* of an empty list, neither when "\" is handled nor when the trailing      *)
(* paragraph is trimmed.                                                    *)
C24_OnlyFormattingError ==
    Len(verses) > 0 => error \in {"none", "FormattingError"}


-----------------------------------------------------------------------------
(* C25, as claimed: in the output of a pass that has completed, every       *)
(* paragraph before the last has at least one line: no empty paragraph,     *)
(* prose or poetry, is left in the interior of the output.                  *)
C25_NoInteriorEmptyParagraph ==
    Formatted =>
        \A i \in 1..(Len(paragraphs) - 1) : ~isEmpty(paragraphs[i])


-----------------------------------------------------------------------------
(* C26, as claimed: whenever "]" is handled without error, the paragraph    *)
(* right before the prose paragraph it appends is poetry, and the segment   *)
(* before the "]", if not empty, is the last line of that poetry paragraph: *)
(* a "]" never closes text into a prose paragraph, also not as the first    *)
(* marker of the first verse.                                               *)
C26_PoetryEndClosesPoetry ==
    [][ (Handling("]") /\ error' = "none") =>
            LET n == Len(paragraphs')
            IN /\ n >= 2
               /\ paragraphs'[n] = Empty("prose")
               /\ paragraphs'[n - 1].formatting = "poetry"
               /\ NonEmpty(Segment) =>
                      LET lines == paragraphs'[n - 1].lines
                      IN  lines # <<>> /\ lines[Len(lines)].text = Segment ]_vars


-----------------------------------------------------------------------------
(* C27: a marker handler that raises FormattingError leaves the formatter   *)
(* as it was before that marker: the precondition is tested before the      *)
(* segment before the marker is committed, so the list of paragraphs, the   *)
(* lines of every paragraph and the pending address are unchanged, and the  *)
(* markers that raise are "[", "]" and "\".                                 *)
C27_FormattingErrorChangesNothing ==
    [][ error' = "FormattingError" =>
            /\ Handling("[") \/ Handling("]") \/ Handling("\\")
            /\ paragraphs' = paragraphs
            /\ verseAddr' = verseAddr ]_vars

\* The "]" of a second verse a] was refused in the prose paragraph of the
\* first: the segment a is on no line and the address of the verse is pending.
C27_Witness ==
    /\ error = "FormattingError"
    /\ Len(verses) = 2
    /\ verses[1].text = <<"a">>
    /\ verses[2].text = <<"a", "]">>
    /\ verseText = <<"a", "]">>
    /\ verseAddr = verses[2].addr
    /\ paragraphs = <<[formatting |-> "prose",
                       lines |-> <<[addr |-> verses[1].addr, text |-> <<"a">>]>>]>>


-----------------------------------------------------------------------------
\* The text opens poetry and does not close it: a "[" with no "]" after it.
OpensPoetry(text) ==
    \E i \in 1..Len(text) :
        /\ text[i] = "["
        /\ \A j \in (i + 1)..Len(text) : text[j] # "]"

\* The verse that has been fetched has no markers and follows a verse that
\* left a poetry paragraph open.
PlainVerseAfterOpenPoetry ==
    /\ pc = "formatVerse"
    /\ vi >= 2
    /\ ~HasMarker(verses[vi].text)
    /\ OpensPoetry(verses[vi - 1].text)

\* The paragraphs with the fetched verse as one more line of the last.
WithVerseAsLine ==
    [paragraphs EXCEPT ![Len(paragraphs)].lines = Append(@, verses[vi])]

(* C28, as claimed: the current paragraph and its style persist from verse  *)
(* to verse: fetching the next verse creates and removes no paragraph, and  *)
(* a verse without markers that follows a verse which left a poetry         *)
(* paragraph open is appended to that poetry paragraph as one new line with *)
(* its own address.                                                         *)
C28_PlainVerseJoinsOpenPoetry ==
    [][ /\ (pc = "for" /\ pc' = "formatVerse") => paragraphs' = paragraphs
        /\ PlainVerseAfterOpenPoetry =>
              /\ CurrentStyle = "poetry"
              /\ paragraphs' = WithVerseAsLine ]_vars

(* C28, amended: the current paragraph and its style persist from verse to  *)
(* verse: fetching the next verse creates and removes no paragraph, and a   *)
(* verse without markers that follows a verse which left a poetry paragraph *)
(* open finds that paragraph current; if its text is not empty it is        *)
(* appended to it as one new line with its own address and its text as it   *)
(* is, and if its text is empty it gives no line and changes no paragraph.  *)
C28_PlainVerseWithTextJoinsOpenPoetry ==
    [][ /\ (pc = "for" /\ pc' = "formatVerse") => paragraphs' = paragraphs
        /\ PlainVerseAfterOpenPoetry =>
              /\ CurrentStyle = "poetry"
              /\ paragraphs' = IF verses[vi].text # <<>> THEN WithVerseAsLine
                               ELSE paragraphs ]_vars

\* The verse a after the verse [a has been committed: the poetry paragraph
\* has two lines, each with the address of its verse.
C28_Witness ==
    /\ pc = "for"
    /\ vi = 2
    /\ verses[1].text = <<"[", "a">>
    /\ verses[2].text = <<"a">>
    /\ paragraphs = <<[formatting |-> "poetry",
                       lines |-> <<[addr |-> verses[1].addr, text |-> <<"a">>],
                                   [addr |-> verses[2].addr, text |-> <<"a">>]>>]>>

=============================================================================
